---- MODULE Spec2Model ----
(***************************************************************************)
(* The two-node research pipeline of maincode.py, newmain.py and           *)
(* accuracy.py: run_research_system builds a ResearchState, the compiled   *)
(* graph runs research_agent and then answer_drafting_agent, and the       *)
(* runner returns the drafted answer.                                      *)
(*                                                                         *)
(* A Python str is a sequence of characters.  A character is a one-letter  *)
(* string, except "NL" (newline), "NUL" (U+0000, a non-printable character *)
(* that is not whitespace), "BUL" (the bullet U+2022) and "FFFD" (the      *)
(* replacement character U+FFFD).                                          *)
(***************************************************************************)
EXTENDS Integers, Sequences, FiniteSets

\* ---------------------------------------------------------------- bounds
\* Longest search result list that is enumerated.
MaxResults == 2
\* Longest generated text enumerated over GenAlphabet.
MaxTextLen == 3
\* Longest generated_text of a structured response enumerated over GenAlphabet.
MaxDictTextLen == 2

\* ------------------------------------------------------- string literals
NO_CONTENT_AVAILABLE == <<"N", "o", " ", "c", "o", "n", "t", "e", "n", "t", " ", "a", "v", "a", "i", "l", "a", "b", "l", "e", ".">>
NO_CONTENT == <<"N", "o", " ", "c", "o", "n", "t", "e", "n", "t">>
NO_RELEVANT == <<"N", "o", " ", "r", "e", "l", "e", "v", "a", "n", "t", " ", "s", "e", "a", "r", "c", "h", " ", "r", "e", "s", "u", "l", "t", "s", ".">>
ERROR_FETCHING_RESULTS == <<"E", "r", "r", "o", "r", " ", "f", "e", "t", "c", "h", "i", "n", "g", " ", "r", "e", "s", "u", "l", "t", "s">>
NO_ANSWER == <<"E", "r", "r", "o", "r", ":", " ", "N", "o", " ", "a", "n", "s", "w", "e", "r", " ", "g", "e", "n", "e", "r", "a", "t", "e", "d", ".">>
CORRUPTED == <<"E", "r", "r", "o", "r", ":", " ", "T", "h", "e", " ", "A", "I", " ", "r", "e", "s", "p", "o", "n", "s", "e", " ", "w", "a", "s", " ", "c", "o", "r", "r", "u", "p", "t", "e", "d", ".", " ", "P", "l", "e", "a", "s", "e", " ", "t", "r", "y", " ", "a", "g", "a", "i", "n", ".">>
ERROR_FETCHING_RESPONSE == <<"E", "r", "r", "o", "r", " ", "f", "e", "t", "c", "h", "i", "n", "g", " ", "r", "e", "s", "p", "o", "n", "s", "e", ".">>
UNEXPECTED_STRUCTURE == <<"E", "r", "r", "o", "r", ":", " ", "U", "n", "e", "x", "p", "e", "c", "t", "e", "d", " ", "f", "i", "n", "a", "l", " ", "s", "t", "a", "t", "e", " ", "s", "t", "r", "u", "c", "t", "u", "r", "e", ".", " ", "R", "e", "c", "e", "i", "v", "e", "d", " ", "t", "y", "p", "e", ":", " ">>
UNEXPECTED_STATE == <<"E", "r", "r", "o", "r", ":", " ", "U", "n", "e", "x", "p", "e", "c", "t", "e", "d", " ", "s", "t", "a", "t", "e", ".">>
\* The garbage patterns of newmain.py and accuracy.py.
GARBAGE_PATTERNS == { <<"-", "-", "c", "2", "-">>,
                      <<"(", " ", "(", " ", "(">>,
                      <<"<", " ", "(", " ", "(">> }
\* len(res) > 50 in accuracy.py.
MinContentLen == 50

\* ------------------------------------------------------- Python's str
\* str.isspace of one character.
IsSpace(c) == c \in {" ", "NL"}

\* str.isprintable of one character: the space is printable, a newline and
\* U+0000 are not; the bullet and U+FFFD are printable.
IsPrintable(c) == c \notin {"NL", "NUL"}

RECURSIVE LStrip(_)
LStrip(s) == IF s = <<>> THEN s
             ELSE IF IsSpace(Head(s)) THEN LStrip(Tail(s)) ELSE s

RECURSIVE RStrip(_)
RStrip(s) == IF s = <<>> THEN s
             ELSE IF IsSpace(s[Len(s)]) THEN RStrip(SubSeq(s, 1, Len(s) - 1)) ELSE s

\* str.strip()
strip(s) == RStrip(LStrip(s))

\* p in s, for a non-empty str p
Contains(s, p) == \E i \in 1..(Len(s) - Len(p) + 1) : SubSeq(s, i, i + Len(p) - 1) = p

\* s.split('\n'): always at least one piece
RECURSIVE SplitLines(_)
SplitLines(s) ==
    IF \A i \in 1..Len(s) : s[i] # "NL" THEN <<s>>
    ELSE LET k == CHOOSE i \in 1..Len(s) : s[i] = "NL" /\ \A j \in 1..(i - 1) : s[j] # "NL"
         IN <<SubSeq(s, 1, k - 1)>> \o SplitLines(SubSeq(s, k + 1, Len(s)))

\* '\n'.join(lines)
RECURSIVE JoinLines(_)
JoinLines(lines) ==
    IF lines = <<>> THEN <<>>
    ELSE IF Len(lines) = 1 THEN lines[1]
    ELSE lines[1] \o <<"NL">> \o JoinLines(Tail(lines))

\* s.replace(bullet, "-")
RECURSIVE ReplaceBullets(_)
ReplaceBullets(s) ==
    IF s = <<>> THEN <<>>
    ELSE <<(IF Head(s) = "BUL" THEN "-" ELSE Head(s))>> \o ReplaceBullets(Tail(s))

\* ------------------------------------------------------- ResearchState
ResearchState(q, data, draft) == [query |-> q, research_data |-> data, answer_draft |-> draft]

\* A Python value held in research_data: t is its type ("str", "int",
\* "list"), s its characters (a str) or its elements (a list).
PyStr(s) == [t |-> "str", s |-> s]

\* ------------------------------------------------------- research step
\* res.get("content", "No content available.") for a mapping res
content_of(res) == IF res.has THEN [t |-> res.t, s |-> res.s] ELSE PyStr(NO_CONTENT_AVAILABLE)

RECURSIVE contents(_)
contents(results) ==
    IF results = <<>> THEN <<>>
    ELSE <<content_of(Head(results))>> \o contents(Tail(results))

\* client.search(...) followed by the comprehension over
\* response.get("results", []): exc when the call raises, the response has
\* no get, the results are not iterable or a result has no get.
extract_contents(sb) ==
    LET results == IF sb.has THEN sb.results ELSE <<>>
        exc == \/ sb.kind = "raise"
               \/ ~sb.isdict
               \/ sb.has /\ ~sb.iterable
               \/ \E i \in 1..Len(results) : ~results[i].isdict
    IN [exc |-> exc, data |-> IF exc THEN <<>> ELSE contents(results)]

\* not research_data or all(not item.strip() for item in research_data):
\* all() stops at the first non-blank item; strip of a value that is not a
\* str raises.
RECURSIVE all_blank(_)
all_blank(data) ==
    IF data = <<>> THEN "true"
    ELSE IF Head(data).t # "str" THEN "exc"
    ELSE IF strip(Head(data).s) # <<>> THEN "false"
    ELSE all_blank(Tail(data))

\* The filter with len(res) >= 50.
keep_item_at_least(res) ==
    IF res.t = "int" THEN "exc"
    ELSE IF (res.t = "str" => ~Contains(res.s, NO_CONTENT)) /\ Len(res.s) >= MinContentLen
         THEN "true" ELSE "false"

\* "No content" not in res and len(res) > 50, for one item: an int is not
\* iterable (TypeError); a list holds no str equal to "No content".
keep_item(res) ==
    IF res.t = "int" THEN "exc"
    ELSE IF (res.t = "str" => ~Contains(res.s, NO_CONTENT)) /\ Len(res.s) > MinContentLen
         THEN "true" ELSE "false"

RECURSIVE filtered(_)
filtered(data) ==
    IF data = <<>> THEN <<>>
    ELSE (IF keep_item(Head(data)) = "true" THEN <<Head(data)>> ELSE <<>>) \o filtered(Tail(data))

\* An except branch that builds its state with an empty query.
research_error_blank_query(state) ==
    [raised |-> FALSE,
     ret |-> [query |-> "", research_data |-> <<PyStr(ERROR_FETCHING_RESULTS)>>,
              answer_draft |-> <<>>]]

\* The except branch of research_agent.
research_error(state) ==
    [raised |-> FALSE,
     ret |-> ResearchState(state.query, <<PyStr(ERROR_FETCHING_RESULTS)>>, <<>>)]

\* research_agent of maincode.py and newmain.py (the two are the same text).
blank_check_research_agent(state, sb) ==
    LET x == extract_contents(sb)
        b == all_blank(x.data)
    IN IF x.exc \/ b = "exc" THEN research_error(state)
       ELSE [raised |-> FALSE,
             ret |-> ResearchState(state.query,
                                   IF b = "true" THEN <<PyStr(NO_RELEVANT)>> ELSE x.data,
                                   <<>>)]

maincode_research_agent(state, sb) == blank_check_research_agent(state, sb)

newmain_research_agent(state, sb) == blank_check_research_agent(state, sb)

\* A research_agent whose try covers the search call alone: an error of the
\* extraction or the filter leaves the step.
accuracy_research_agent_narrow_try(state, sb) ==
    LET x == extract_contents(sb)
        f == filtered(x.data)
    IN IF sb.kind = "raise" THEN research_error(state)
       ELSE IF x.exc \/ \E i \in 1..Len(x.data) : keep_item(x.data[i]) = "exc"
            THEN [raised |-> TRUE, ret |-> state]
       ELSE [raised |-> FALSE,
             ret |-> ResearchState(state.query,
                                   IF f = <<>> THEN <<PyStr(NO_RELEVANT)>> ELSE f,
                                   <<>>)]

accuracy_research_agent(state, sb) ==
    LET x == extract_contents(sb)
        f == filtered(x.data)
    IN IF x.exc \/ \E i \in 1..Len(x.data) : keep_item(x.data[i]) = "exc"
       THEN research_error(state)
       ELSE [raised |-> FALSE,
             ret |-> ResearchState(state.query,
                                   IF f = <<>> THEN <<PyStr(NO_RELEVANT)>> ELSE f,
                                   <<>>)]

research_agent(v, state, sb) ==
    CASE v = "maincode" -> maincode_research_agent(state, sb)
      [] v = "newmain" -> newmain_research_agent(state, sb)
      [] v = "accuracy" -> accuracy_research_agent(state, sb)

\* ------------------------------------------------------- drafting step
\* sanitize_response of maincode.py
sanitize_response(response_text) == SelectSeq(response_text, IsPrintable)

\* '\n'.join(line for line in answer_text.split('\n') if line.strip())
NonBlankLine(line) == strip(line) # <<>>

drop_blank_lines(answer_text) == JoinLines(SelectSeq(SplitLines(answer_text), NonBlankLine))

\* if not answer_text or U+FFFD in answer_text: the corruption sentinel
maincode_check(answer_text) ==
    IF answer_text = <<>> \/ Contains(answer_text, <<"FFFD">>) THEN CORRUPTED ELSE answer_text

\* The blank lines dropped, then the bullets replaced.  (x \in {e} binds
\* the value of e once.)
maincode_post_process(answer_text) ==
    CHOOSE out \in {ReplaceBullets(cleaned_answer) :
                       cleaned_answer \in {drop_blank_lines(answer_text)}} : TRUE

\* What maincode.py makes of a str response: strip, sanitize_response, the
\* corruption check, the post-processing.
maincode_clean(response) ==
    CHOOSE out \in {maincode_post_process(checked) :
                       checked \in {maincode_check(answer_text) :
                                       answer_text \in {sanitize_response(strip(response))}}} : TRUE

\* What maincode.py makes of a response that is no str.
maincode_no_answer == maincode_post_process(maincode_check(NO_ANSWER))

\* The except branch of answer_drafting_agent.
drafting_error(state) ==
    [raised |-> FALSE, prompt_data |-> state.research_data,
     ret |-> ResearchState(state.query, state.research_data, ERROR_FETCHING_RESPONSE)]

\* A drafting step whose generation call is outside the try.
maincode_answer_drafting_agent_call_outside_try(state, hb) ==
    IF hb.kind = "raise"
    THEN [raised |-> TRUE, prompt_data |-> state.research_data, ret |-> state]
    ELSE [raised |-> FALSE, prompt_data |-> state.research_data,
          ret |-> ResearchState(state.query, state.research_data,
                                IF hb.kind = "str" THEN maincode_clean(hb.s)
                                ELSE maincode_no_answer)]

maincode_answer_drafting_agent(state, hb) ==
    IF hb.kind = "raise" THEN drafting_error(state)
    ELSE [raised |-> FALSE, prompt_data |-> state.research_data,
          ret |-> ResearchState(state.query, state.research_data,
                                IF hb.kind = "str" THEN maincode_clean(hb.s)
                                ELSE maincode_no_answer)]

\* The if/elif/else with the generated_text of a mapping left unstripped.
normalize_response_dict_unstripped(hb) ==
    CASE hb.kind = "str" -> [exc |-> FALSE, t |-> "str", s |-> strip(hb.s)]
      [] hb.kind = "dict" /\ ~hb.has -> [exc |-> FALSE, t |-> "str", s |-> <<>>]
      [] hb.kind = "dict" /\ hb.has /\ hb.gt = "other" -> [exc |-> TRUE, t |-> "str", s |-> <<>>]
      [] hb.kind = "dict" /\ hb.has /\ hb.gt # "other" -> [exc |-> FALSE, t |-> hb.gt, s |-> hb.s]
      [] OTHER -> [exc |-> FALSE, t |-> "str", s |-> NO_ANSWER]

\* The if/elif/else of newmain.py and accuracy.py: exc when generated_text
\* has no strip; a missing generated_text is "".
normalize_response(hb) ==
    CASE hb.kind = "str" -> [exc |-> FALSE, t |-> "str", s |-> strip(hb.s)]
      [] hb.kind = "dict" /\ ~hb.has -> [exc |-> FALSE, t |-> "str", s |-> <<>>]
      [] hb.kind = "dict" /\ hb.has /\ hb.gt = "other" -> [exc |-> TRUE, t |-> "str", s |-> <<>>]
      [] hb.kind = "dict" /\ hb.has /\ hb.gt # "other" -> [exc |-> FALSE, t |-> hb.gt, s |-> strip(hb.s)]
      [] OTHER -> [exc |-> FALSE, t |-> "str", s |-> NO_ANSWER]

\* not answer_text or any(p in answer_text for p in [...]): a str pattern in
\* a non-empty bytes value raises.
garbage_check(a) ==
    IF a.s = <<>> THEN [exc |-> FALSE, s |-> CORRUPTED]
    ELSE IF a.t = "bytes" THEN [exc |-> TRUE, s |-> <<>>]
    ELSE IF \E p \in GARBAGE_PATTERNS : Contains(a.s, p) THEN [exc |-> FALSE, s |-> CORRUPTED]
    ELSE [exc |-> FALSE, s |-> a.s]

\* answer_drafting_agent of newmain.py and accuracy.py (the same text but
\* for the prompt's wording).
pattern_check_answer_drafting_agent(state, hb) ==
    LET a == normalize_response(hb)
        g == garbage_check(a)
    IN IF hb.kind = "raise" \/ a.exc \/ g.exc THEN drafting_error(state)
       ELSE [raised |-> FALSE, prompt_data |-> state.research_data,
             ret |-> ResearchState(state.query, state.research_data, g.s)]

\* A drafting step that checks for an empty answer but for no pattern.
newmain_answer_drafting_agent_empty_check_only(state, hb) ==
    LET a == normalize_response(hb)
    IN IF hb.kind = "raise" \/ a.exc THEN drafting_error(state)
       ELSE [raised |-> FALSE, prompt_data |-> state.research_data,
             ret |-> ResearchState(state.query, state.research_data,
                                   IF a.s = <<>> THEN CORRUPTED ELSE a.s)]

newmain_answer_drafting_agent(state, hb) == pattern_check_answer_drafting_agent(state, hb)

\* A drafting step that checks the patterns but not for an empty answer.
accuracy_answer_drafting_agent_no_empty_check(state, hb) ==
    LET a == normalize_response(hb)
    IN IF hb.kind = "raise" \/ a.exc \/ a.t = "bytes" THEN drafting_error(state)
       ELSE [raised |-> FALSE, prompt_data |-> state.research_data,
             ret |-> ResearchState(state.query, state.research_data,
                                   IF \E p \in GARBAGE_PATTERNS : Contains(a.s, p)
                                   THEN CORRUPTED ELSE a.s)]

accuracy_answer_drafting_agent(state, hb) == pattern_check_answer_drafting_agent(state, hb)

answer_drafting_agent(v, state, hb) ==
    CASE v = "maincode" -> maincode_answer_drafting_agent(state, hb)
      [] v = "newmain" -> newmain_answer_drafting_agent(state, hb)
      [] v = "accuracy" -> accuracy_answer_drafting_agent(state, hb)

\* ------------------------------------------------------- graph and runner
\* graph.set_entry_point("research")
entry_point == "research"

\* A graph whose node "research" leads to END.
edge_research_to_end(node) == "END"

\* graph.add_edge("research", "draft"); graph.add_edge("draft", END)
edge(node) == IF node = "research" THEN "draft" ELSE "END"

\* The tail of run_research_system of maincode.py and newmain.py: shape is
\* the type of the value executor.invoke returned.
fallback_run_result(shape, final_state) ==
    IF shape \in {"dict", "ResearchState"}
    THEN (IF final_state.answer_draft # <<>> THEN final_state.answer_draft ELSE NO_ANSWER)
    ELSE UNEXPECTED_STRUCTURE

maincode_run_result(shape, final_state) == fallback_run_result(shape, final_state)

newmain_run_result(shape, final_state) == fallback_run_result(shape, final_state)

accuracy_run_result(shape, final_state) ==
    IF shape \in {"dict", "ResearchState"} THEN final_state.answer_draft ELSE UNEXPECTED_STATE

run_result(v, shape, final_state) ==
    CASE v = "maincode" -> maincode_run_result(shape, final_state)
      [] v = "newmain" -> newmain_run_result(shape, final_state)
      [] v = "accuracy" -> accuracy_run_result(shape, final_state)

\* ------------------------------------------------------- inputs
Variants == {"maincode", "newmain", "accuracy"}

Queries == {"", "common cold treatment"}

RECURSIVE Rep(_, _)
Rep(c, n) == IF n = 0 THEN <<>> ELSE <<c>> \o Rep(c, n - 1)

\* All sequences over A of length at most n.
RECURSIVE SeqsUpTo(_, _)
SeqsUpTo(A, n) ==
    IF n = 0 THEN {<<>>}
    ELSE LET T == SeqsUpTo(A, n - 1)
         IN T \cup {Append(t, c) : t \in {x \in T : Len(x) = n - 1}, c \in A}

\* Values of a result's content field.
ContentValues ==
    {PyStr(s) : s \in {<<>>, <<" ">>, <<"a">>,
                       Rep("a", MinContentLen), Rep("a", MinContentLen + 1),
                       NO_CONTENT \o Rep("a", MinContentLen)}}
    \cup {[t |-> "int", s |-> <<>>], [t |-> "list", s |-> Rep("x", MinContentLen + 1)]}

\* A search result: a mapping with a content, a mapping without, or a
\* value that is no mapping.
ResultItems ==
    {[isdict |-> TRUE, has |-> TRUE, t |-> c.t, s |-> c.s] : c \in ContentValues}
    \cup {[isdict |-> TRUE, has |-> FALSE, t |-> "str", s |-> <<>>],
          [isdict |-> FALSE, has |-> FALSE, t |-> "int", s |-> <<>>]}

SearchResponse(results) ==
    [kind |-> "value", isdict |-> TRUE, has |-> TRUE, iterable |-> TRUE, results |-> results]

SearchOddities ==
    {[kind |-> "raise", isdict |-> FALSE, has |-> FALSE, iterable |-> FALSE, results |-> <<>>],
     [kind |-> "value", isdict |-> FALSE, has |-> FALSE, iterable |-> FALSE, results |-> <<>>],
     [kind |-> "value", isdict |-> TRUE, has |-> FALSE, iterable |-> FALSE, results |-> <<>>],
     [kind |-> "value", isdict |-> TRUE, has |-> TRUE, iterable |-> FALSE, results |-> <<>>]}

\* Every behaviour of client.search that is enumerated.
SearchBehaviours ==
    SearchOddities \cup {SearchResponse(r) : r \in SeqsUpTo(ResultItems, MaxResults)}

GoodItem == [isdict |-> TRUE, has |-> TRUE, t |-> "str", s |-> Rep("a", MinContentLen + 1)]

\* The search behaviours paired with every generation behaviour.
FewSearchBehaviours ==
    {[kind |-> "raise", isdict |-> FALSE, has |-> FALSE, iterable |-> FALSE, results |-> <<>>],
     SearchResponse(<<>>), SearchResponse(<<GoodItem>>)}

GenAlphabet == {"a", " ", "NL", "NUL", "BUL"}

GenFixtures ==
    GARBAGE_PATTERNS
    \cup {<<"a">> \o p \o <<"a">> : p \in GARBAGE_PATTERNS}
    \cup {<<" ">> \o p \o <<"NL">> : p \in GARBAGE_PATTERNS}
    \cup {<<"FFFD">>, <<"a", "FFFD", "a">>, <<"a", "NL", "NL", "BUL", "a">>}

HfText(s) == [kind |-> "str", has |-> FALSE, gt |-> "str", s |-> s]

HfDict(gt, s) == [kind |-> "dict", has |-> TRUE, gt |-> gt, s |-> s]

HfOddities ==
    {[kind |-> "raise", has |-> FALSE, gt |-> "str", s |-> <<>>],
     [kind |-> "other", has |-> FALSE, gt |-> "str", s |-> <<>>],
     [kind |-> "dict", has |-> FALSE, gt |-> "str", s |-> <<>>],
     HfDict("other", <<>>), HfDict("bytes", <<>>), HfDict("bytes", <<" ">>), HfDict("bytes", <<"a">>)}

\* Every behaviour of hf_client.text_generation that is enumerated.
HfBehaviours ==
    HfOddities
    \cup {HfText(s) : s \in SeqsUpTo(GenAlphabet, MaxTextLen) \cup GenFixtures}
    \cup {HfDict("str", s) : s \in SeqsUpTo(GenAlphabet, MaxDictTextLen) \cup GenFixtures}

\* The generation behaviours paired with every search behaviour.
FewHfBehaviours ==
    {[kind |-> "raise", has |-> FALSE, gt |-> "str", s |-> <<>>],
     [kind |-> "other", has |-> FALSE, gt |-> "str", s |-> <<>>],
     HfText(<<"a">>), HfDict("str", <<"a">>)}

\* The pairs of collaborator behaviours of one run.
Scenarios ==
    (SearchBehaviours \X FewHfBehaviours) \cup (FewSearchBehaviours \X HfBehaviours)

\* ------------------------------------------------------- state machine
VARIABLES
    variant,           \* which file's pipeline runs
    search_behaviour,  \* what client.search does in this run
    hf_behaviour,      \* what hf_client.text_generation does in this run
    pc,                \* "init", the node to run, "END", "returned", "crashed"
    user_query,        \* the argument of run_research_system
    state,             \* the ResearchState the runner built
    channel,           \* the graph's current state value
    research_out,      \* the value research_agent returned
    draft_in,          \* the state answer_drafting_agent was called with
    draft_out,         \* the value answer_drafting_agent returned
    hf_calls,          \* the research data of each prompt sent to hf_client
    trace,             \* the nodes run so far, in order
    result             \* the value run_research_system returned

vars == <<variant, search_behaviour, hf_behaviour, pc, user_query, state, channel,
          research_out, draft_in, draft_out, hf_calls, trace, result>>

\* A state variable not yet assigned.
Unset == ResearchState("<unset>", <<>>, <<>>)

Init ==
    /\ variant \in Variants
    /\ \E sc \in Scenarios : search_behaviour = sc[1] /\ hf_behaviour = sc[2]
    /\ pc = "init"
    /\ user_query = "<unset>"
    /\ state = Unset
    /\ channel = Unset
    /\ research_out = Unset
    /\ draft_in = Unset
    /\ draft_out = Unset
    /\ hf_calls = <<>>
    /\ trace = <<>>
    /\ result = <<>>

\* run_research_system(user_query) up to executor.invoke(state)
Start ==
    /\ pc = "init"
    /\ \E q \in Queries :
         /\ user_query' = q
         /\ state' = ResearchState(q, <<>>, <<>>)
         /\ channel' = ResearchState(q, <<>>, <<>>)
    /\ pc' = entry_point
    /\ UNCHANGED <<variant, search_behaviour, hf_behaviour, research_out, draft_in,
                   draft_out, hf_calls, trace, result>>

\* The graph runs the node "research".
ResearchNode ==
    /\ pc = "research"
    /\ LET r == research_agent(variant, channel, search_behaviour)
       IN /\ research_out' = r.ret
          /\ channel' = IF r.raised THEN channel ELSE r.ret
          /\ pc' = IF r.raised THEN "crashed" ELSE edge("research")
    /\ trace' = Append(trace, "research")
    /\ UNCHANGED <<variant, search_behaviour, hf_behaviour, user_query, state, draft_in,
                   draft_out, hf_calls, result>>

\* The graph runs the node "draft".
DraftNode ==
    /\ pc = "draft"
    /\ LET r == answer_drafting_agent(variant, channel, hf_behaviour)
       IN /\ draft_in' = channel
          /\ draft_out' = r.ret
          /\ hf_calls' = Append(hf_calls, r.prompt_data)
          /\ channel' = IF r.raised THEN channel ELSE r.ret
          /\ pc' = IF r.raised THEN "crashed" ELSE edge("draft")
    /\ trace' = Append(trace, "draft")
    /\ UNCHANGED <<variant, search_behaviour, hf_behaviour, user_query, state,
                   research_out, result>>

\* executor.invoke returns the final state, as a mapping or as a
\* ResearchState, and run_research_system returns its answer.
Return ==
    /\ pc = "END"
    /\ \E shape \in {"dict", "ResearchState"} :
         result' = run_result(variant, shape, channel)
    /\ pc' = "returned"
    /\ UNCHANGED <<variant, search_behaviour, hf_behaviour, user_query, state, channel,
                   research_out, draft_in, draft_out, hf_calls, trace>>

Next == Start \/ ResearchNode \/ DraftNode \/ Return

Spec == Init /\ [][Next]_vars

\* ------------------------------------------------------- claims
AfterResearch == pc \in {"draft", "END", "returned"}

AfterDraft == pc \in {"END", "returned"}

\* C1: in every variant, whatever the collaborators do, the run never
\* raises, can always take its next step until run_research_system has
\* returned, and the value returned is a non-empty text.
C1_ReturnsNonEmptyText ==
    /\ pc # "crashed"
    /\ pc # "returned" => ENABLED Next
    /\ pc = "returned" => result # <<>> /\ Len(result) > 0

\* accuracy.py, which has no fallback in the runner, returns the corruption
\* sentinel for a whitespace-only generated text.
C1_Witness ==
    /\ pc = "returned"
    /\ variant = "accuracy"
    /\ hf_behaviour.kind = "str"
    /\ hf_behaviour.s = <<" ">>
    /\ result = CORRUPTED

\* An error arises inside research_agent's try: the search call raises, the
\* response or a result has no get, the results are not iterable, or the
\* variant's check meets a content it cannot handle.
C2_ErrorArises ==
    LET sb == search_behaviour
        rs == IF sb.has THEN sb.results ELSE <<>>
        IsBlankStr(r) == r.has /\ r.t = "str" /\ \A k \in 1..Len(r.s) : IsSpace(r.s[k])
    IN \/ sb.kind = "raise"
       \/ ~sb.isdict
       \/ sb.has /\ ~sb.iterable
       \/ \E i \in 1..Len(rs) : ~rs[i].isdict
       \/ /\ variant = "accuracy"
          /\ \E i \in 1..Len(rs) : rs[i].has /\ rs[i].t = "int"
       \/ /\ variant \in {"maincode", "newmain"}
          /\ \E i \in 1..Len(rs) : /\ rs[i].has /\ rs[i].t # "str"
                                   /\ \A j \in 1..(i - 1) : IsBlankStr(rs[j])

\* C2: when an error arises in the research step (in the search call, the
\* extraction or the filter), the step does not raise and returns the query
\* unchanged, research_data = ["Error fetching results"] and an empty draft.
C2_SearchErrorContained ==
    /\ pc # "crashed"
    /\ (AfterResearch /\ C2_ErrorArises) =>
          research_out = [query |-> user_query,
                          research_data |-> <<[t |-> "str", s |-> ERROR_FETCHING_RESULTS]>>,
                          answer_draft |-> <<>>]

\* The filter of accuracy.py met a content that is an int.
C2_Witness ==
    /\ pc = "draft"
    /\ variant = "accuracy"
    /\ search_behaviour.kind = "value"
    /\ search_behaviour.isdict /\ search_behaviour.has /\ search_behaviour.iterable
    /\ Len(search_behaviour.results) = 1
    /\ search_behaviour.results[1].isdict
    /\ search_behaviour.results[1].has
    /\ search_behaviour.results[1].t = "int"
    /\ research_out.research_data = <<[t |-> "str", s |-> ERROR_FETCHING_RESULTS]>>

\* C3: when the generation call raises, the drafting step does not raise,
\* it carries research_data forward, and the draft and the value
\* run_research_system returns are "Error fetching response.".
C3_GenerationErrorContained ==
    /\ pc # "crashed"
    /\ (AfterDraft /\ hf_behaviour.kind = "raise") =>
          /\ draft_out.answer_draft = ERROR_FETCHING_RESPONSE
          /\ draft_in = research_out
          /\ draft_out.research_data = research_out.research_data
          /\ pc = "returned" => result = ERROR_FETCHING_RESPONSE

\* The generation call raised after a search with no results.
C3_Witness ==
    /\ pc = "returned"
    /\ hf_behaviour.kind = "raise"
    /\ research_out.research_data = <<[t |-> "str", s |-> NO_RELEVANT]>>
    /\ result = ERROR_FETCHING_RESPONSE

C4_HasPattern(s) ==
    \/ Contains(s, <<"-", "-", "c", "2", "-">>)
    \/ Contains(s, <<"(", " ", "(", " ", "(">>)
    \/ Contains(s, <<"<", " ", "(", " ", "(">>)

\* C4 as stated: in every variant a generated text with one of the three
\* garbage patterns or U+FFFD makes the run return the corruption sentinel.
C4_Original ==
    (/\ pc = "returned"
     /\ hf_behaviour.kind = "str"
     /\ C4_HasPattern(hf_behaviour.s) \/ Contains(hf_behaviour.s, <<"FFFD">>))
    => result = CORRUPTED

\* C4, amended: newmain.py and accuracy.py return the corruption sentinel
\* for a generated text with one of the three garbage patterns, maincode.py
\* for a generated text with U+FFFD.
C4_Amended ==
    /\ (/\ pc = "returned"
        /\ variant \in {"newmain", "accuracy"}
        /\ hf_behaviour.kind = "str"
        /\ C4_HasPattern(hf_behaviour.s))
       => result = CORRUPTED
    /\ (/\ pc = "returned"
        /\ variant = "maincode"
        /\ hf_behaviour.kind = "str"
        /\ Contains(hf_behaviour.s, <<"FFFD">>))
       => result = CORRUPTED

\* newmain.py was given "a--c2-a".
C4_Witness ==
    /\ pc = "returned"
    /\ variant = "newmain"
    /\ hf_behaviour.kind = "str"
    /\ hf_behaviour.s = <<"a", "-", "-", "c", "2", "-", "a">>
    /\ result = CORRUPTED

C5_NoOuterSpace(s) == s # <<>> => ~IsSpace(s[1]) /\ ~IsSpace(s[Len(s)])

\* No line of s is empty or made of whitespace only.
C5_NoBlankLine(s) ==
    \A i \in 0..Len(s), j \in 1..(Len(s) + 1) :
        (/\ i < j
         /\ i = 0 \/ s[i] = "NL"
         /\ j = Len(s) + 1 \/ s[j] = "NL"
         /\ \A k \in (i + 1)..(j - 1) : s[k] # "NL")
        => \E k \in (i + 1)..(j - 1) : ~IsSpace(s[k])

\* C5: the sanitization of maincode.py is idempotent, and its result has no
\* outer whitespace, no blank line, no bullet and no non-printable character.
C5_SanitizeIdempotent ==
    (AfterDraft /\ variant = "maincode" /\ hf_behaviour.kind = "str") =>
        LET once == draft_out.answer_draft
        IN /\ maincode_clean(once) = once
           /\ C5_NoOuterSpace(once)
           /\ C5_NoBlankLine(once)
           /\ \A i \in 1..Len(once) : once[i] # "BUL" /\ once[i] \notin {"NL", "NUL"}

\* C6: research runs once, then drafting once, then the run ends; the one
\* generation call is made with the research_data the research step returned.
C6_FixedOrder ==
    /\ pc # "crashed"
    /\ pc \in {"init", "research"} => trace = <<>>
    /\ pc = "draft" => trace = <<"research">> /\ hf_calls = <<>>
    /\ AfterDraft =>
          /\ trace = <<"research", "draft">>
          /\ draft_in = research_out
          /\ hf_calls = <<research_out.research_data>>
    /\ pc = "returned" => ~ENABLED Next

\* The search raised and the generation call was still made, on the
\* search-error placeholder.
C6_Witness ==
    /\ pc = "returned"
    /\ search_behaviour.kind = "raise"
    /\ trace = <<"research", "draft">>
    /\ hf_calls = << <<[t |-> "str", s |-> ERROR_FETCHING_RESULTS]>> >>

\* C7: after the drafting step answer_draft is never the empty string.
C7_DraftNeverEmpty == AfterDraft => draft_out.answer_draft # <<>>

\* C8: each step returns a new state that differs from its input in the
\* field it owns alone, the inputs are left as they were, and the final
\* state carries the query the run was started with.
C8_Frame ==
    /\ pc # "init" => state = [query |-> user_query, research_data |-> <<>>, answer_draft |-> <<>>]
    /\ AfterResearch =>
          /\ research_out.query = state.query
          /\ research_out.answer_draft = <<>>
    /\ AfterDraft =>
          /\ draft_in = research_out
          /\ draft_out.query = draft_in.query
          /\ draft_out.research_data = draft_in.research_data
          /\ channel = draft_out
          /\ channel.query = user_query

\* Both collaborators raised and the query came through.
C8_Witness ==
    /\ pc = "returned"
    /\ user_query = "common cold treatment"
    /\ search_behaviour.kind = "raise"
    /\ hf_behaviour.kind = "raise"
    /\ channel.query = "common cold treatment"
    /\ channel.research_data = <<[t |-> "str", s |-> ERROR_FETCHING_RESULTS]>>

\* The search call succeeded with well-formed results: a mapping whose
\* results are mappings with a text content or none.
C9_SearchSucceeds ==
    LET sb == search_behaviour
    IN /\ sb.kind = "value" /\ sb.isdict
       /\ sb.has => sb.iterable
       /\ \A i \in 1..Len(sb.results) :
             sb.results[i].isdict /\ (sb.results[i].has => sb.results[i].t = "str")

\* The contents of the results, an absent one being "No content available.".
C9_Contents ==
    LET rs == IF search_behaviour.has THEN search_behaviour.results ELSE <<>>
    IN [i \in 1..Len(rs) |->
           [t |-> "str", s |-> IF rs[i].has THEN rs[i].s ELSE NO_CONTENT_AVAILABLE]]

C9_PolicyA(c) == ~Contains(c.s, NO_CONTENT) /\ Len(c.s) >= 51

C9_NonBlank(c) == \E k \in 1..Len(c.s) : ~IsSpace(c.s[k])

C9_OrPlaceholder(kept) == IF Len(kept) = 0 THEN <<[t |-> "str", s |-> NO_RELEVANT]>> ELSE kept

\* C9 as stated: research_data is the contents that pass the variant's
\* policy, in order: (a) in accuracy.py, (b) non-blank in the other two.
C9_Original ==
    (AfterResearch /\ C9_SearchSucceeds) =>
        research_out.research_data =
            IF variant = "accuracy"
            THEN C9_OrPlaceholder(SelectSeq(C9_Contents, C9_PolicyA))
            ELSE C9_OrPlaceholder(SelectSeq(C9_Contents, C9_NonBlank))

\* C9, amended: accuracy.py keeps the contents that pass policy (a);
\* maincode.py and newmain.py keep every content, blank ones too, unless
\* all are blank; with nothing kept research_data is the placeholder, and
\* research_data is never empty after the research step.
C9_Amended ==
    /\ (AfterResearch /\ C9_SearchSucceeds) =>
          research_out.research_data =
              IF variant = "accuracy"
              THEN C9_OrPlaceholder(SelectSeq(C9_Contents, C9_PolicyA))
              ELSE IF \A i \in 1..Len(C9_Contents) : ~C9_NonBlank(C9_Contents[i])
                   THEN <<[t |-> "str", s |-> NO_RELEVANT]>>
                   ELSE C9_Contents
    /\ AfterResearch => Len(research_out.research_data) > 0

\* maincode.py kept a blank content beside a real one.
C9_Witness ==
    /\ pc = "draft"
    /\ variant = "maincode"
    /\ C9_SearchSucceeds
    /\ Len(search_behaviour.results) = 2
    /\ research_out.research_data = <<[t |-> "str", s |-> <<>>], [t |-> "str", s |-> <<"a">>]>>

\* a is t without its leading and trailing whitespace.
C10_StrippedOf(a, t) ==
    \E i \in 1..Len(t), j \in 1..Len(t) :
        /\ i <= j
        /\ a = SubSeq(t, i, j)
        /\ ~IsSpace(t[i]) /\ ~IsSpace(t[j])
        /\ \A k \in 1..Len(t) : (k < i \/ k > j) => IsSpace(t[k])

\* A text of letters and spaces with at least one letter.
C10_Plain(t) == (\A k \in 1..Len(t) : t[k] \in {"a", " "}) /\ (\E k \in 1..Len(t) : t[k] = "a")

\* C10 as stated: in every variant a text response and the generated_text
\* of a mapping give the answer, and any other response gives
\* "Error: No answer generated.".
C10_Original ==
    AfterDraft =>
        /\ (hf_behaviour.kind = "str" /\ C10_Plain(hf_behaviour.s))
              => C10_StrippedOf(draft_out.answer_draft, hf_behaviour.s)
        /\ (/\ hf_behaviour.kind = "dict" /\ hf_behaviour.has /\ hf_behaviour.gt = "str"
            /\ C10_Plain(hf_behaviour.s))
              => C10_StrippedOf(draft_out.answer_draft, hf_behaviour.s)
        /\ hf_behaviour.kind = "other" => draft_out.answer_draft = NO_ANSWER

\* C10, amended: newmain.py and accuracy.py take the answer from the
\* generated_text of a mapping; maincode.py answers a mapping, like every
\* response that is no text, with "Error: No answer generated.".
C10_Amended ==
    AfterDraft =>
        /\ (hf_behaviour.kind = "str" /\ C10_Plain(hf_behaviour.s))
              => C10_StrippedOf(draft_out.answer_draft, hf_behaviour.s)
        /\ (/\ variant \in {"newmain", "accuracy"}
            /\ hf_behaviour.kind = "dict" /\ hf_behaviour.has /\ hf_behaviour.gt = "str"
            /\ C10_Plain(hf_behaviour.s))
              => C10_StrippedOf(draft_out.answer_draft, hf_behaviour.s)
        /\ (variant = "maincode" /\ hf_behaviour.kind = "dict")
              => draft_out.answer_draft = NO_ANSWER
        /\ hf_behaviour.kind = "other" => draft_out.answer_draft = NO_ANSWER

\* maincode.py was given the mapping {"generated_text": "a"}.
C10_Witness ==
    /\ AfterDraft
    /\ variant = "maincode"
    /\ hf_behaviour.kind = "dict" /\ hf_behaviour.has /\ hf_behaviour.gt = "str"
    /\ hf_behaviour.s = <<"a">>
    /\ draft_out.answer_draft = NO_ANSWER
====
